---- MODULE Spec2Model ----
(***************************************************************************)
(* Model of the two notebooks of the repository:                           *)
(*   - the grid-world tutorial (docs/requirements.txt, the notebook text   *)
(*     that follows the package pins): state_mapping, the heat-map grid,   *)
(*     the likelihood A, the dictionary P, the transition matrix B and     *)
(*     the Markov-decision-process flow the tutorial describes;            *)
(*   - the likelihood demo (examples/A_matrix_demo.ipynb): the labelled    *)
(*     table A_stub, the spreadsheet round trip (Option 1), the inline     *)
(*     fill (Option 2), the conversion and the sampled observation.        *)
(* A notebook cell is one action; a loop is one action per iteration.      *)
(* Probabilities of the tutorial are 0 and 1; probabilities of the demo    *)
(* are kept in hundredths (100 stands for 1.0).                            *)
(***************************************************************************)
EXTENDS Integers, Sequences, FiniteSets, TLC

VARIABLES
    pc,            \* tutorial: the cell (or loop) that runs next
    state_index,   \* tutorial: position of the loops over state_mapping.items()
    grid,          \* tutorial: the 3x3 heat-map array, indexed [y, x]
    gridWrites,    \* tutorial: how often each cell of grid has been assigned
    A,             \* tutorial: the likelihood matrix, indexed [o, s]
    P,             \* tutorial: the dictionary state -> action -> next state
    s,             \* tutorial: outer loop variable of the B construction
    a,             \* tutorial: inner loop variable of the B construction
    B,             \* tutorial: the transition matrix, indexed [ns, s, a]
    xs1,           \* MDP flow, first run: the states passed through
    xs2,           \* MDP flow, second run: the states passed through
    os1,           \* MDP flow, first run: the observations generated
    os2,           \* MDP flow, second run: the observations generated
    acts,          \* MDP flow: the actions applied so far (the same in both runs)
    plot_i,        \* tutorial: outer loop variable i of the B plotting cell
    plot_j,        \* tutorial: inner loop variable j of the B plotting cell
    count,         \* tutorial: the counter of the B plotting cell
    drawn,         \* tutorial: the heat-maps drawn so far: slice, axes, title
    deleted,       \* tutorial: the axes removed by fig.delaxes
    dpc,           \* demo: the cell that runs next
    read_from_excel,
    pre_specified_excel,
    A_stub,        \* demo: the labelled likelihood table, in hundredths
    dirExists,     \* demo: whether tmp_dir exists
    file,          \* demo: the spreadsheet tmp_dir/my_a_matrix.xlsx
    excel_path,    \* demo: whether the name excel_path is defined
    lastRead,      \* demo: what read_A_matrix found when it was called
    A_nd,          \* demo: the converted array, one table per modality
    obs_idx,       \* demo: the sampled outcome index per modality
    observation,   \* demo: the sampled observation, one vector per modality
    printed,       \* demo: the (modality, label) lines the sample cell prints
    fs0,           \* demo: tmp_dir and the spreadsheet as they were before the run
    wrote,         \* demo: whether A_stub.to_excel has been called
    readCalls,     \* demo: per call of read_A_matrix, whether excel_path was defined
    supplied       \* demo: the options that have put their values into A_stub

plotVars == <<plot_i, plot_j, count, drawn, deleted>>
tutVars == <<pc, state_index, grid, gridWrites, A, P, s, a, B,
             xs1, xs2, os1, os2, acts, plotVars>>
demoVars == <<dpc, read_from_excel, pre_specified_excel, A_stub, dirExists,
              file, excel_path, lastRead, A_nd, obs_idx, observation,
              printed, fs0, wrote, readCalls, supplied>>
vars == <<tutVars, demoVars>>

(***************************************************************************)
(* Bounds                                                                  *)
(***************************************************************************)
\* number of actions applied in one run of the MDP flow
MaxSteps == 3

(***************************************************************************)
(* Tutorial: constants of the notebook                                     *)
(***************************************************************************)
dim == 3

num_states == 9

UP == 0

RIGHT == 1

DOWN == 2

LEFT == 3

STAY == 4

\* actions = {'UP':0, 'RIGHT':1, 'DOWN':2, 'LEFT':3, 'STAY':4}
actions == [UP |-> 0, RIGHT |-> 1, DOWN |-> 2, LEFT |-> 3, STAY |-> 4]

\* len(actions)
num_actions == Cardinality(DOMAIN actions)

\* the placeholder [] that every entry of P[state_index] holds at first
EmptyList == -1

\* a mapping that sends two indices to the same grid position
state_mapping_dup ==
    (0 :> <<0, 0>>) @@ (1 :> <<1, 0>>) @@ (2 :> <<2, 0>>) @@
    (3 :> <<0, 1>>) @@ (4 :> <<1, 1>>) @@ (5 :> <<1, 2>>) @@
    (6 :> <<0, 2>>) @@ (7 :> <<1, 2>>) @@ (8 :> <<2, 2>>)

\* state_mapping: linear index -> (x, y)
state_mapping ==
    (0 :> <<0, 0>>) @@ (1 :> <<1, 0>>) @@ (2 :> <<2, 0>>) @@
    (3 :> <<0, 1>>) @@ (4 :> <<1, 1>>) @@ (5 :> <<2, 1>>) @@
    (6 :> <<0, 2>>) @@ (7 :> <<1, 2>>) @@ (8 :> <<2, 2>>)

\* the keys of state_mapping in the order .items() yields them
items == <<0, 1, 2, 3, 4, 5, 6, 7, 8>>

xOf(st) == state_mapping[st][1]

yOf(st) == state_mapping[st][2]

(***************************************************************************)
(* Tutorial: pure helpers                                                  *)
(***************************************************************************)
\* np.zeros((rows, cols))
zeros2(rows, cols) == [r \in 0..(rows - 1), c \in 0..(cols - 1) |-> 0]

\* np.zeros([n, m, k])
zeros3(n, m, k) == [i \in 0..(n - 1), j \in 0..(m - 1), l \in 0..(k - 1) |-> 0]

\* the heat-map assignment with the two indices exchanged
gridAssignXY(g, x, y, linear_index) == [g EXCEPT ![x, y] = linear_index]

\* grid[y, x] = linear_index
gridAssign(g, x, y, linear_index) == [g EXCEPT ![y, x] = linear_index]

\* ones on the diagonal above the main one
eyeShifted(N) == [o \in 0..(N - 1), st \in 0..(N - 1) |-> IF st = o + 1 THEN 1 ELSE 0]

\* np.eye(N): ones on the main diagonal, zeros elsewhere
eye(N) == [o \in 0..(N - 1), st \in 0..(N - 1) |-> IF st = o + 0 THEN 1 ELSE 0]

\* UP that moves one column instead of one row
moveUpByOne(st, y) == IF y = 0 THEN st ELSE st - 1

\* P[state_index][actions['UP']]
moveUp(st, y) == IF y = 0 THEN st ELSE st - dim

\* RIGHT with the wall test against dim instead of dim - 1
moveRightNoWall(st, x) == IF x = dim THEN st ELSE st + 1

\* RIGHT that wraps round to the start of the row at the right wall
moveRightWrap(st, x) == IF x = (dim - 1) THEN st - (dim - 1) ELSE st + 1

\* P[state_index][actions['RIGHT']]
moveRight(st, x) == IF x = (dim - 1) THEN st ELSE st + 1

\* DOWN that never moves
moveDownStuck(st, y) == st

\* P[state_index][actions['DOWN']]
moveDown(st, y) == IF y = (dim - 1) THEN st ELSE st + dim

\* P[state_index][actions['LEFT']]
moveLeft(st, x) == IF x = 0 THEN st ELSE st - 1

\* STAY that sends every state to state 0
moveStayZero(st) == 0

\* P[state_index][actions['STAY']]
moveStay(st) == st

\* the loop body without the assignment for LEFT: the placeholder stays
PRowNoLeft(st, xy_coordinates) ==
    LET x  == xy_coordinates[1]
        y  == xy_coordinates[2]
        r0 == [act \in 0..(num_actions - 1) |-> EmptyList]
        r1 == [r0 EXCEPT ![actions.UP] = moveUp(st, y)]
        r2 == [r1 EXCEPT ![actions.RIGHT] = moveRight(st, x)]
        r3 == [r2 EXCEPT ![actions.DOWN] = moveDown(st, y)]
        r5 == [r3 EXCEPT ![actions.STAY] = moveStay(st)]
    IN  r5

\* the body of the loop that fills P[state_index]
PRow(st, xy_coordinates) ==
    LET x  == xy_coordinates[1]
        y  == xy_coordinates[2]
        r0 == [act \in 0..(num_actions - 1) |-> EmptyList]
        r1 == [r0 EXCEPT ![actions.UP] = moveUp(st, y)]
        r2 == [r1 EXCEPT ![actions.RIGHT] = moveRight(st, x)]
        r3 == [r2 EXCEPT ![actions.DOWN] = moveDown(st, y)]
        r4 == [r3 EXCEPT ![actions.LEFT] = moveLeft(st, x)]
        r5 == [r4 EXCEPT ![actions.STAY] = moveStay(st)]
    IN  r5

\* the assignment with next state and prior state exchanged
setBTransposed(Bm, ns, st, act) == [Bm EXCEPT ![st, ns, act] = 1]

\* the assignment that uses the prior state where the next state belongs
setBPriorState(Bm, ns, st, act) == [Bm EXCEPT ![st, st, act] = 1]

\* the assignment that also keeps the agent where it is with some probability
setBAlsoStay(Bm, ns, st, act) == [Bm EXCEPT ![ns, st, act] = 1, ![st, st, act] = 1]

\* B[ns, s, a] = 1
setB(Bm, ns, st, act) == [Bm EXCEPT ![ns, st, act] = 1]

\* the outcomes a categorical distribution gives a positive probability
Support(dist, n) == {i \in 0..(n - 1) : dist[i] > 0}

\* the column B[:, st, act]
BColumn(Bm, st, act) == [ns \in 0..(num_states - 1) |-> Bm[ns, st, act]]

\* the column A[:, st]
AColumn(Am, st) == [o \in 0..(num_states - 1) |-> Am[o, st]]

\* dist[0] + ... + dist[n - 1]
RECURSIVE SumTo(_, _)
SumTo(dist, n) == IF n = 0 THEN 0 ELSE dist[n - 1] + SumTo(dist, n - 1)

(***************************************************************************)
(* Tutorial: initial state and cells                                       *)
(***************************************************************************)
TutInit ==
    /\ pc = "heatmap"
    /\ state_index = 1
    /\ grid = zeros2(3, 3)
    /\ gridWrites = zeros2(3, 3)
    /\ A = << >>
    /\ P = << >>
    /\ s = 0
    /\ a = 0
    /\ B = << >>
    /\ xs1 = << >>
    /\ xs2 = << >>
    /\ os1 = << >>
    /\ os2 = << >>
    /\ acts = << >>
    /\ plot_i = 0
    /\ plot_j = 0
    /\ count = 0
    /\ drawn = << >>
    /\ deleted = << >>

\* one iteration of "for linear_index, xy_coordinates in state_mapping.items()"
HeatmapStep ==
    /\ pc = "heatmap"
    /\ state_index <= Len(items)
    /\ LET linear_index   == items[state_index]
           xy_coordinates == state_mapping[linear_index]
           x == xy_coordinates[1]
           y == xy_coordinates[2]
       IN  /\ grid' = gridAssign(grid, x, y, linear_index)
           /\ gridWrites' = [gridWrites EXCEPT ![y, x] = @ + 1]
    /\ state_index' = state_index + 1
    /\ UNCHANGED <<pc, A, P, s, a, B, xs1, xs2, os1, os2, acts>>
    /\ UNCHANGED plotVars
    /\ UNCHANGED demoVars

\* the loop is exhausted; the heat-map is drawn and the next cell runs
HeatmapDone ==
    /\ pc = "heatmap"
    /\ state_index > Len(items)
    /\ pc' = "A"
    /\ UNCHANGED <<state_index, grid, gridWrites, A, P, s, a, B,
                   xs1, xs2, os1, os2, acts>>
    /\ UNCHANGED plotVars
    /\ UNCHANGED demoVars

\* A = np.eye(9)
CellA ==
    /\ pc = "A"
    /\ A' = eye(9)
    /\ pc' = "P"
    /\ state_index' = 1
    /\ UNCHANGED <<grid, gridWrites, P, s, a, B, xs1, xs2, os1, os2, acts>>
    /\ UNCHANGED plotVars
    /\ UNCHANGED demoVars

\* one iteration of "for state_index, xy_coordinates in state_mapping.items()"
PStep ==
    /\ pc = "P"
    /\ state_index <= Len(items)
    /\ LET key == items[state_index]
           row == PRow(key, state_mapping[key])
       IN  P' = [k \in (DOMAIN P) \cup {key} |-> IF k = key THEN row ELSE P[k]]
    /\ state_index' = state_index + 1
    /\ UNCHANGED <<pc, grid, gridWrites, A, s, a, B, xs1, xs2, os1, os2, acts>>
    /\ UNCHANGED plotVars
    /\ UNCHANGED demoVars

\* the loop is exhausted; B = np.zeros([num_states, num_states, len(actions)])
PDoneStep ==
    /\ pc = "P"
    /\ state_index > Len(items)
    /\ B' = zeros3(num_states, num_states, num_actions)
    /\ s' = 0
    /\ a' = 0
    /\ pc' = "B"
    /\ UNCHANGED <<state_index, grid, gridWrites, A, P, xs1, xs2, os1, os2, acts>>
    /\ UNCHANGED plotVars
    /\ UNCHANGED demoVars

\* one iteration of the inner loop: ns = int(P[s][a]); B[ns, s, a] = 1
BStep ==
    /\ pc = "B"
    /\ s < num_states
    /\ LET ns == P[s][a]
       IN  B' = setB(B, ns, s, a)
    /\ IF a + 1 < num_actions
       THEN a' = a + 1 /\ s' = s
       ELSE a' = 0 /\ s' = s + 1
    /\ UNCHANGED <<pc, state_index, grid, gridWrites, A, P, xs1, xs2, os1, os2, acts>>
    /\ UNCHANGED plotVars
    /\ UNCHANGED demoVars

\* both loops are exhausted: the generative model and environment are set up
BDoneStep ==
    /\ pc = "B"
    /\ s >= num_states
    /\ pc' = "plot"
    /\ UNCHANGED <<state_index, grid, gridWrites, A, P, s, a, B,
                   xs1, xs2, os1, os2, acts>>
    /\ UNCHANGED plotVars
    /\ UNCHANGED demoVars

(***************************************************************************)
(* Tutorial: the cell that plots B                                         *)
(***************************************************************************)
\* a = list(actions.keys()): the names in the order the dictionary holds them
action_keys == <<"UP", "RIGHT", "DOWN", "LEFT", "STAY">>

\* the test that stops one heat-map early
breakEarly(cnt) == cnt >= 4

\* if count >= 5: break
breakNow(cnt) == cnt >= 5

\* axes.flatten()[k] of the 2x3 array of axes: row-major
flattenIndex(k) == <<k \div 3, k % 3>>

\* one iteration of "for j in range(dim)" within "for i in range(dim-1)"
PlotStep ==
    /\ pc = "plot"
    /\ plot_i < dim - 1
    /\ IF plot_j < dim /\ ~breakNow(count)
       THEN \* sns.heatmap(B[:,:,count], ax = axes[i,j]); g.set_title(a[count])
            /\ drawn' = Append(drawn, [slice |-> count,
                                       axes  |-> <<plot_i, plot_j>>,
                                       title |-> action_keys[count + 1]])
            /\ count' = count + 1
            /\ plot_j' = plot_j + 1
            /\ plot_i' = plot_i
       ELSE \* the inner loop is exhausted or left by break
            /\ plot_i' = plot_i + 1
            /\ plot_j' = 0
            /\ UNCHANGED <<count, drawn>>
    /\ UNCHANGED <<pc, deleted, state_index, grid, gridWrites, A, P, s, a, B,
                   xs1, xs2, os1, os2, acts>>
    /\ UNCHANGED demoVars

\* the loops are exhausted: fig.delaxes(axes.flatten()[5]); plt.show()
PlotDone ==
    /\ pc = "plot"
    /\ plot_i >= dim - 1
    /\ deleted' = Append(deleted, flattenIndex(5))
    /\ pc' = "env"
    /\ UNCHANGED <<plot_i, plot_j, count, drawn, state_index, grid, gridWrites,
                   A, P, s, a, B, xs1, xs2, os1, os2, acts>>
    /\ UNCHANGED demoVars

(***************************************************************************)
(* Tutorial: the flow of the Markov decision process, run twice side by    *)
(* side from the same state with the same actions.  Each run draws its     *)
(* observation from p(o_t | x_t) = A[:, x_t] and its next state from       *)
(* p(x_t+1 | x_t, a_t) = B[:, x_t, a_t] on its own.                        *)
(***************************************************************************)
Last(seq) == seq[Len(seq)]

\* 1.) The state of the environment is x_t
EnvStart ==
    /\ pc = "env"
    /\ \E x0 \in 0..(num_states - 1) :
          /\ xs1' = <<x0>>
          /\ xs2' = <<x0>>
    /\ pc' = "observe"
    /\ UNCHANGED <<state_index, grid, gridWrites, A, P, s, a, B, os1, os2, acts>>
    /\ UNCHANGED plotVars
    /\ UNCHANGED demoVars

\* 2.) The environment state x_t generates an observation o_t
EnvObserve ==
    /\ pc = "observe"
    /\ \E o1 \in Support(AColumn(A, Last(xs1)), num_states) :
       \E o2 \in Support(AColumn(A, Last(xs2)), num_states) :
          /\ os1' = Append(os1, o1)
          /\ os2' = Append(os2, o2)
    /\ pc' = "act"
    /\ UNCHANGED <<state_index, grid, gridWrites, A, P, s, a, B, xs1, xs2, acts>>
    /\ UNCHANGED plotVars
    /\ UNCHANGED demoVars

\* 3.) the agent takes an action a_t; 4.) the environment updates its state
EnvAct ==
    /\ pc = "act"
    /\ Len(acts) < MaxSteps
    /\ \E act \in 0..(num_actions - 1) :
       \E n1 \in Support(BColumn(B, Last(xs1), act), num_states) :
       \E n2 \in Support(BColumn(B, Last(xs2), act), num_states) :
          /\ acts' = Append(acts, act)
          /\ xs1' = Append(xs1, n1)
          /\ xs2' = Append(xs2, n2)
    /\ pc' = "observe"
    /\ UNCHANGED <<state_index, grid, gridWrites, A, P, s, a, B, os1, os2>>
    /\ UNCHANGED plotVars
    /\ UNCHANGED demoVars

TutNext ==
    \/ HeatmapStep
    \/ HeatmapDone
    \/ CellA
    \/ PStep
    \/ PDoneStep
    \/ BStep
    \/ BDoneStep
    \/ PlotStep
    \/ PlotDone
    \/ EnvStart
    \/ EnvObserve
    \/ EnvAct

(***************************************************************************)
(* Demo: labels and dimensions                                             *)
(***************************************************************************)
\* list(model_labels['observations'].keys())
modality_names == <<"grass_observation", "weather_observation">>

\* model_labels['observations']
obs_labels ==
    [grass_observation   |-> <<"wet", "dry">>,
     weather_observation |-> <<"clear", "rainy", "cloudy">>]

\* list(model_labels['states'].keys())
factor_names == <<"did_it_rain", "was_sprinkler_on">>

\* model_labels['states']
state_labels ==
    [did_it_rain      |-> <<"rained", "did_not_rain">>,
     was_sprinkler_on |-> <<"on", "off">>]

\* num_obs of utils.get_model_dimensions_from_labels(model_labels)
num_obs == [g \in 1..Len(modality_names) |-> Len(obs_labels[modality_names[g]])]

\* n_states of utils.get_model_dimensions_from_labels(model_labels)
n_states == [f \in 1..Len(factor_names) |-> Len(state_labels[factor_names[f]])]

\* n_factors of utils.get_model_dimensions_from_labels(model_labels)
n_factors == Len(factor_names)

Range(seq) == {seq[i] : i \in 1..Len(seq)}

\* the row index of the table: (modality, outcome)
Rows == UNION {{<<m, o>> : o \in Range(obs_labels[m])} : m \in Range(modality_names)}

\* the column index of the table: (did_it_rain, was_sprinkler_on)
Cols == Range(state_labels.did_it_rain) \X Range(state_labels.was_sprinkler_on)

\* create_A_matrix_stub(model_labels): the labelled table, every cell 0
create_A_matrix_stub == [r \in Rows, c \in Cols |-> 0]

(***************************************************************************)
(* Demo: pure helpers.  A probability p is kept as the integer 100 * p.    *)
(***************************************************************************)
\* A_stub.loc[(modality, outcome), (rain, sprinkler)] = value
locSetCell(T, row, col, value) == [T EXCEPT ![row, col] = value]

\* Option 2 taken whatever the flag says
runsOption2Always(rfe) == TRUE

\* if not read_from_excel: the Option 2 cell fills the table
runsOption2(rfe) == ~rfe

\* if read_from_excel: the Option 1 cells write and read the spreadsheet
runsOption1(rfe) == rfe

\* the stub written whatever the flag says
writesStubAlways(pse) == TRUE

\* if not pre_specified_excel: the stub is written to excel_path
writesStub(pse) == ~pse

\* np.random.randint(o_dim): an integer from 0 up to, not including, o_dim
randint(o_dim) == 0..(o_dim - 1)

\* the assignment through a slice that ends at the index: [:idx + 1] = 1.0
setOneHotUpTo(vec, idx) == [k \in DOMAIN vec |-> IF k <= idx THEN 1 ELSE vec[k]]

\* observation[g][obs_idx[g]] = 1.0
setOneHot(vec, idx) == [vec EXCEPT ![idx] = 1]

\* model_labels['observations'][modality_name][obs_idx[g]]
labelAt(labels, idx) == labels[idx + 1]

\* the column repeated with its entries rotated by one place per repetition
tileColumnRolled(v, reps) ==
    [i \in 1..Len(v), j \in 1..reps |-> v[((i + j - 2) % Len(v)) + 1]]

\* np.tile(np.array(v).reshape(-1, 1), (1, reps)): v as a column, repeated
tileColumn(v, reps) == [i \in 1..Len(v), j \in 1..reps |-> v[i]]

\* the block assignment that fills only the first of the selected columns
locSetBlockFirstColumn(T, modality, rain, block) ==
    [r \in Rows, c \in Cols |->
        IF r[1] = modality /\ c[1] = rain /\ c[2] = state_labels.was_sprinkler_on[1]
        THEN LET i == CHOOSE k \in 1..Len(obs_labels[modality]) :
                          obs_labels[modality][k] = r[2]
             IN  block[i, 1]
        ELSE T[r, c]]

\* A_stub.loc[modality, rain] = block: the rows of the modality, in label
\* order, and the columns of that did_it_rain value, in label order
locSetBlock(T, modality, rain, block) ==
    [r \in Rows, c \in Cols |->
        IF r[1] = modality /\ c[1] = rain
        THEN LET i == CHOOSE k \in 1..Len(obs_labels[modality]) :
                          obs_labels[modality][k] = r[2]
                 j == CHOOSE k \in 1..Len(state_labels.was_sprinkler_on) :
                          state_labels.was_sprinkler_on[k] = c[2]
             IN  block[i, j]
        ELSE T[r, c]]

\* the statements of the Option 2 cell, in order
Option2Fill(T) ==
    LET t1 == locSetCell(T,  <<"grass_observation", "wet">>, <<"rained", "on">>, 100)
        t2 == locSetCell(t1, <<"grass_observation", "wet">>, <<"rained", "off">>, 70)
        t3 == locSetCell(t2, <<"grass_observation", "dry">>, <<"rained", "off">>, 30)
        t4 == locSetCell(t3, <<"grass_observation", "wet">>, <<"did_not_rain", "on">>, 50)
        t5 == locSetCell(t4, <<"grass_observation", "dry">>, <<"did_not_rain", "on">>, 50)
        t6 == locSetCell(t5, <<"grass_observation", "dry">>, <<"did_not_rain", "off">>, 100)
        t7 == locSetBlock(t6, "weather_observation", "rained",
                          tileColumn(<<10, 65, 25>>, 2))
        t8 == locSetBlock(t7, "weather_observation", "did_not_rain",
                          tileColumn(<<90, 5, 5>>, 2))
    IN  t8

\* a sheet somebody filled out by hand
handFilledSheet ==
    LET t1 == locSetCell(create_A_matrix_stub, <<"grass_observation", "wet">>,
                         <<"rained", "on">>, 90)
        t2 == locSetCell(t1, <<"grass_observation", "dry">>, <<"rained", "on">>, 10)
        t3 == locSetBlock(t2, "grass_observation", "did_not_rain",
                          tileColumn(<<20, 80>>, 2))
        t4 == locSetCell(t3, <<"grass_observation", "wet">>, <<"rained", "off">>, 60)
        t5 == locSetCell(t4, <<"grass_observation", "dry">>, <<"rained", "off">>, 40)
        t6 == locSetBlock(t5, "weather_observation", "rained",
                          tileColumn(<<20, 50, 30>>, 2))
        t7 == locSetBlock(t6, "weather_observation", "did_not_rain",
                          tileColumn(<<80, 10, 10>>, 2))
    IN  t7

\* the tables a hand-filled spreadsheet may hold
SheetTables == {handFilledSheet, Option2Fill(create_A_matrix_stub)}

\* no spreadsheet at excel_path
NoFile == [exists |-> FALSE, origin |-> "none", content |-> << >>]

\* A_stub.to_excel(excel_path): the sheet holds the table as written
to_excel(T) == [exists |-> TRUE, origin |-> "stub", content |-> T]

\* utils.convert_A_stub_to_ndarray(A_stub, model_labels): per modality g,
\* A_stub.loc[modality].to_numpy().reshape(num_obs[g], *num_states)
convert_A_stub_to_ndarray(T) ==
    [g \in 1..Len(modality_names) |->
        [o \in 0..(num_obs[g] - 1), i \in 0..(n_states[1] - 1), j \in 0..(n_states[2] - 1) |->
            T[<<modality_names[g], obs_labels[modality_names[g]][o + 1]>>,
              <<state_labels.did_it_rain[i + 1], state_labels.was_sprinkler_on[j + 1]>>]]]

\* utils.obj_array_zeros(num_obs): one zero vector per modality
obj_array_zeros(shape) == [g \in 1..Len(shape) |-> [k \in 0..(shape[g] - 1) |-> 0]]

(***************************************************************************)
(* Demo: initial state and cells                                           *)
(***************************************************************************)
DemoInit ==
    /\ dpc = "labels"
    /\ read_from_excel \in BOOLEAN
    /\ pre_specified_excel \in BOOLEAN
    /\ A_stub = << >>
    /\ \/ dirExists = FALSE /\ file = NoFile
       \/ dirExists = TRUE /\ file = NoFile
       \/ /\ dirExists = TRUE
          /\ \E T \in SheetTables :
                file = [exists |-> TRUE, origin |-> "prespecified", content |-> T]
    /\ excel_path = FALSE
    /\ lastRead = "none"
    /\ A_nd = << >>
    /\ obs_idx = << >>
    /\ observation = << >>
    /\ printed = << >>
    /\ fs0 = [dir |-> dirExists, file |-> file]
    /\ wrote = FALSE
    /\ readCalls = << >>
    /\ supplied = {}

\* the cell of model_labels: A_stub = create_A_matrix_stub(model_labels)
LabelsCell ==
    /\ dpc = "labels"
    /\ A_stub' = create_A_matrix_stub
    /\ dpc' = "option1"
    /\ UNCHANGED <<read_from_excel, pre_specified_excel, dirExists, file,
                   excel_path, lastRead, A_nd, obs_idx, observation,
                   printed, fs0, wrote, readCalls, supplied>>
    /\ UNCHANGED tutVars

\* the Option 1 cell: make tmp_dir, name excel_path, write the stub
Option1Cell ==
    /\ dpc = "option1"
    /\ IF runsOption1(read_from_excel)
       THEN /\ dirExists' = TRUE
            /\ excel_path' = TRUE
            /\ IF writesStub(pre_specified_excel)
               THEN file' = to_excel(A_stub) /\ wrote' = TRUE
               ELSE file' = file /\ wrote' = wrote
       ELSE UNCHANGED <<dirExists, excel_path, file, wrote>>
    /\ dpc' = "readback"
    /\ UNCHANGED <<read_from_excel, pre_specified_excel, A_stub, lastRead,
                   A_nd, obs_idx, observation, printed, fs0, readCalls, supplied>>
    /\ UNCHANGED tutVars

\* somebody fills out the written sheet separately, between the two cells
FillOutSeparately ==
    /\ dpc = "readback"
    /\ file.exists
    /\ file.origin = "stub"
    /\ \E T \in SheetTables :
          file' = [exists |-> TRUE, origin |-> "filled", content |-> T]
    /\ UNCHANGED <<dpc, read_from_excel, pre_specified_excel, A_stub, dirExists,
                   excel_path, lastRead, A_nd, obs_idx, observation,
                   printed, fs0, wrote, readCalls, supplied>>
    /\ UNCHANGED tutVars

\* the read-back cell: A_stub = read_A_matrix(excel_path, n_factors)
ReadBackCell ==
    /\ dpc = "readback"
    /\ IF runsOption1(read_from_excel)
       THEN IF ~excel_path
            THEN \* the name excel_path is not defined: NameError
                 /\ dpc' = "error"
                 /\ UNCHANGED <<A_stub, lastRead, readCalls, supplied>>
            ELSE /\ readCalls' = Append(readCalls, [pathDefined |-> excel_path])
                 /\ IF file.exists
                    THEN /\ A_stub' = file.content
                         /\ lastRead' = file.origin
                         /\ supplied' = supplied \cup {"option1"}
                         /\ dpc' = "option2"
                    ELSE /\ lastRead' = "missing"
                         /\ dpc' = "error"
                         /\ UNCHANGED <<A_stub, supplied>>
       ELSE /\ dpc' = "option2"
            /\ UNCHANGED <<A_stub, lastRead, readCalls, supplied>>
    /\ UNCHANGED <<read_from_excel, pre_specified_excel, dirExists, file,
                   excel_path, A_nd, obs_idx, observation, printed, fs0, wrote>>
    /\ UNCHANGED tutVars

\* the Option 2 cell: fill the table inline
Option2Cell ==
    /\ dpc = "option2"
    /\ IF runsOption2(read_from_excel)
       THEN /\ A_stub' = Option2Fill(A_stub)
            /\ supplied' = supplied \cup {"option2"}
       ELSE UNCHANGED <<A_stub, supplied>>
    /\ dpc' = "convert"
    /\ UNCHANGED <<read_from_excel, pre_specified_excel, dirExists, file,
                   excel_path, lastRead, A_nd, obs_idx, observation,
                   printed, fs0, wrote, readCalls>>
    /\ UNCHANGED tutVars

\* A = utils.convert_A_stub_to_ndarray(A_stub, model_labels)
ConvertCell ==
    /\ dpc = "convert"
    /\ A_nd' = convert_A_stub_to_ndarray(A_stub)
    /\ dpc' = "sample"
    /\ UNCHANGED <<read_from_excel, pre_specified_excel, A_stub, dirExists, file,
                   excel_path, lastRead, obs_idx, observation,
                   printed, fs0, wrote, readCalls, supplied>>
    /\ UNCHANGED tutVars

\* the cell that samples a random observation
SampleCell ==
    /\ dpc = "sample"
    /\ \E idx \in [1..Len(num_obs) -> 0..2] :
          /\ \A g \in 1..Len(num_obs) : idx[g] \in randint(num_obs[g])
          /\ obs_idx' = idx
          /\ observation' = [g \in 1..Len(num_obs) |->
                                setOneHot(obj_array_zeros(num_obs)[g], idx[g])]
          /\ printed' = [g \in 1..Len(modality_names) |->
                            <<modality_names[g],
                              labelAt(obs_labels[modality_names[g]], idx[g])>>]
    /\ dpc' = "infer"
    /\ UNCHANGED <<read_from_excel, pre_specified_excel, A_stub, dirExists, file,
                   excel_path, lastRead, A_nd, fs0, wrote, readCalls, supplied>>
    /\ UNCHANGED tutVars

\* qs = run_vanilla_fpi(A, observation, ...): the notebook ends
InferCell ==
    /\ dpc = "infer"
    /\ dpc' = "done"
    /\ UNCHANGED <<read_from_excel, pre_specified_excel, A_stub, dirExists, file,
                   excel_path, lastRead, A_nd, obs_idx, observation,
                   printed, fs0, wrote, readCalls, supplied>>
    /\ UNCHANGED tutVars

DemoNext ==
    \/ LabelsCell
    \/ Option1Cell
    \/ FillOutSeparately
    \/ ReadBackCell
    \/ Option2Cell
    \/ ConvertCell
    \/ SampleCell
    \/ InferCell

(***************************************************************************)
(* Specifications                                                          *)
(***************************************************************************)
\* the demo notebook is not open
DemoOff ==
    /\ dpc = "off"
    /\ read_from_excel = TRUE
    /\ pre_specified_excel = TRUE
    /\ A_stub = << >>
    /\ dirExists = FALSE
    /\ file = NoFile
    /\ excel_path = FALSE
    /\ lastRead = "none"
    /\ A_nd = << >>
    /\ obs_idx = << >>
    /\ observation = << >>
    /\ printed = << >>
    /\ fs0 = [dir |-> FALSE, file |-> NoFile]
    /\ wrote = FALSE
    /\ readCalls = << >>
    /\ supplied = {}

\* the tutorial notebook is not open
TutOff ==
    /\ pc = "off"
    /\ state_index = 1
    /\ grid = zeros2(3, 3)
    /\ gridWrites = zeros2(3, 3)
    /\ A = << >>
    /\ P = << >>
    /\ s = 0
    /\ a = 0
    /\ B = << >>
    /\ xs1 = << >>
    /\ xs2 = << >>
    /\ os1 = << >>
    /\ os2 = << >>
    /\ acts = << >>
    /\ plot_i = 0
    /\ plot_j = 0
    /\ count = 0
    /\ drawn = << >>
    /\ deleted = << >>

Init == TutInit /\ DemoOff

Next == TutNext

\* the grid-world tutorial notebook
Spec == Init /\ [][Next]_vars

\* the tutorial notebook, its cells run one after the other to the end
SpecLive == Init /\ [][Next]_vars /\ WF_vars(Next)

InitDemo == TutOff /\ DemoInit

NextDemo == DemoNext

\* the likelihood demo notebook
SpecDemo == InitDemo /\ [][NextDemo]_vars

(***************************************************************************)
(* Stages of the tutorial notebook                                         *)
(***************************************************************************)
States == 0..(num_states - 1)

Actions == 0..(num_actions - 1)

\* the heat-map loop has finished
GridBuilt == pc \in {"A", "P", "B", "plot", "env", "observe", "act"}

\* the cell A = np.eye(9) has run
ABuilt == pc \in {"P", "B", "plot", "env", "observe", "act"}

\* the loop that fills P has finished
PBuilt == pc \in {"B", "plot", "env", "observe", "act"}

\* the loops that fill B have finished
BBuilt == pc \in {"plot", "env", "observe", "act"}

(***************************************************************************)
(* Properties of the grid-world tutorial                                   *)
(***************************************************************************)
\* C1: once B has been constructed from P, for every prior state and every
\* action the entries B[ns, s, a] summed over all next states ns equal 1.
Thm_C1 ==
    BBuilt => \A st \in States : \A act \in Actions :
                  SumTo(BColumn(B, st, act), num_states) = 1

\* B is complete and holds a transition that leaves its prior state
Wit_C1 == BBuilt /\ B[0, 3, UP] = 1 /\ B[3, 3, UP] = 0

\* C2: transitions are deterministic: for every state and action exactly one
\* next state has B[ns, s, a] = 1, it is P[s][a], every other entry of the
\* column is 0, and B has exactly 45 non-zero entries.
Thm_C2 ==
    BBuilt =>
        /\ \A st \in States : \A act \in Actions :
              /\ Cardinality({ns \in States : B[ns, st, act] = 1}) = 1
              /\ B[P[st][act], st, act] = 1
              /\ \A i \in States : i # P[st][act] => B[i, st, act] = 0
        /\ Cardinality({e \in DOMAIN B : B[e] # 0}) = 45

\* B is complete and the column of (state 4, RIGHT) has its 1 at state 5
Wit_C2 == BBuilt /\ P[4][RIGHT] = 5 /\ B[5, 4, RIGHT] = 1 /\ B[4, 4, RIGHT] = 0

\* C3: an action that would leave the grid collapses to stay: UP at y = 0,
\* RIGHT at x = 2, DOWN at y = 2 and LEFT at x = 0 yield the same state,
\* in P and in B.
Thm_C3 ==
    /\ PBuilt => \A st \in States :
          /\ yOf(st) = 0 => P[st][UP] = st
          /\ xOf(st) = 2 => P[st][RIGHT] = st
          /\ yOf(st) = 2 => P[st][DOWN] = st
          /\ xOf(st) = 0 => P[st][LEFT] = st
    /\ BBuilt => \A st \in States :
          /\ yOf(st) = 0 => B[st, st, UP] = 1
          /\ xOf(st) = 2 => B[st, st, RIGHT] = 1
          /\ yOf(st) = 2 => B[st, st, DOWN] = 1
          /\ xOf(st) = 0 => B[st, st, LEFT] = 1

\* B is complete and the corner state 8 stays put under RIGHT and DOWN
Wit_C3 == BBuilt /\ B[8, 8, RIGHT] = 1 /\ B[8, 8, DOWN] = 1 /\ P[2][RIGHT] = 2

\* C4: for every move that no wall blocks, the index arithmetic agrees with
\* the coordinates of state_mapping: from (x, y) UP leads to (x, y-1), RIGHT
\* to (x+1, y), DOWN to (x, y+1), LEFT to (x-1, y); no wrap-around.
Thm_C4 ==
    PBuilt => \A st \in States :
        LET x == xOf(st)
            y == yOf(st)
        IN  /\ y # 0 => /\ P[st][UP] \in States
                        /\ state_mapping[P[st][UP]] = <<x, y - 1>>
            /\ x # 2 => /\ P[st][RIGHT] \in States
                        /\ state_mapping[P[st][RIGHT]] = <<x + 1, y>>
            /\ y # 2 => /\ P[st][DOWN] \in States
                        /\ state_mapping[P[st][DOWN]] = <<x, y + 1>>
            /\ x # 0 => /\ P[st][LEFT] \in States
                        /\ state_mapping[P[st][LEFT]] = <<x - 1, y>>

\* P is complete and the centre state moves to its four neighbours
Wit_C4 ==
    /\ PBuilt
    /\ P[4][UP] = 1 /\ P[4][RIGHT] = 5 /\ P[4][DOWN] = 7 /\ P[4][LEFT] = 3

\* C5: STAY leaves every state unchanged: P[s][STAY] = s for all s, and
\* the slice B[:, :, 4] is the 9x9 identity matrix.
Thm_C5 ==
    /\ PBuilt => \A st \in States : P[st][STAY] = st
    /\ BBuilt => \A ns \in States : \A st \in States :
                     B[ns, st, STAY] = IF ns = st THEN 1 ELSE 0

\* B is complete and its STAY slice has been written for the last state
Wit_C5 == BBuilt /\ P[8][STAY] = 8 /\ B[8, 8, STAY] = 1 /\ B[7, 8, STAY] = 0

\* C6: the likelihood A is the 9x9 identity mapping: A[o, s] = 1 when o = s
\* and 0 otherwise, every column sums to 1, and the only observation a state
\* can generate is the state itself.
Thm_C6 ==
    ABuilt =>
        /\ DOMAIN A = States \X States
        /\ \A o \in States : \A st \in States :
              A[o, st] = IF o = st THEN 1 ELSE 0
        /\ \A st \in States :
              /\ SumTo(AColumn(A, st), num_states) = 1
              /\ Support(AColumn(A, st), num_states) = {st}

\* A has been assigned and a state has generated its observation
Wit_C6 == ABuilt /\ Len(os1) >= 1 /\ os1[1] = xs1[1] /\ A[5, 5] = 1 /\ A[5, 4] = 0

\* C7: state_mapping is a bijection between the indices 0..8 and the
\* coordinates (x, y) with x, y in 0..2, with index = x + 3*y; the heat-map
\* loop writes each of the 9 cells of grid exactly once and cell [y, x]
\* holds the index mapped to (x, y).
Thm_C7 ==
    /\ DOMAIN state_mapping = States
    /\ \A st \in States : state_mapping[st] \in (0..2) \X (0..2)
    /\ \A st \in States : \A st2 \in States :
          state_mapping[st] = state_mapping[st2] => st = st2
    /\ \A xy \in (0..2) \X (0..2) : \E st \in States : state_mapping[st] = xy
    /\ \A st \in States : st = xOf(st) + 3 * yOf(st)
    /\ \A y \in 0..2 : \A x \in 0..2 : gridWrites[y, x] <= 1
    /\ GridBuilt =>
          /\ \A y \in 0..2 : \A x \in 0..2 : gridWrites[y, x] = 1
          /\ \A st \in States : grid[yOf(st), xOf(st)] = st

\* the heat-map loop has finished and the grid holds the indices row by row
Wit_C7 == GridBuilt /\ grid[0, 1] = 1 /\ grid[1, 0] = 3 /\ grid[2, 1] = 7

\* C9: two runs of the grid world that start in the same state and apply the
\* same actions pass through the same states and generate the same
\* observations; every observation equals the state that generated it, and
\* every next state is the one P gives for the current state and the action.
Thm_C9 ==
    /\ xs1 = xs2
    /\ os1 = os2
    /\ \A k \in 1..Len(os1) : os1[k] = xs1[k]
    /\ \A k \in 1..Len(os2) : os2[k] = xs2[k]
    /\ \A k \in 1..Len(acts) : xs1[k + 1] = P[xs1[k]][acts[k]]

\* both runs have applied three actions, moved, and observed the last state
Wit_C9 ==
    /\ Len(acts) >= 3
    /\ Len(os1) = Len(xs1)
    /\ Len(os2) = Len(xs2)
    /\ xs1[1] # xs1[2]
    /\ xs1[3] = xs1[2]
    /\ xs1[4] # xs1[3]

(***************************************************************************)
(* Properties of the likelihood demo                                       *)
(***************************************************************************)
RECURSIVE SumRows(_, _, _, _)
\* the sum of the cells of column col in the first n rows of a modality
SumRows(T, modality, col, n) ==
    IF n = 0 THEN 0
    ELSE T[<<modality, obs_labels[modality][n]>>, col]
         + SumRows(T, modality, col, n - 1)

\* the Option 2 cell has filled the table
Option2Ran == ~read_from_excel /\ dpc \in {"convert", "sample", "infer", "done"}

\* C8: in the inline-filled table (Option 2, from the all-zero stub), for
\* each modality and each of the 4 combinations of hidden states, the
\* probabilities over the outcomes of the modality sum to 1.
Thm_C8 ==
    Option2Ran =>
        \A m \in Range(modality_names) : \A c \in Cols :
            SumRows(A_stub, m, c, Len(obs_labels[m])) = 100

\* the Option 2 cell has run and its values are in the table
Wit_C8 ==
    /\ Option2Ran
    /\ A_stub[<<"grass_observation", "wet">>, <<"rained", "off">>] = 70
    /\ A_stub[<<"weather_observation", "rainy">>, <<"rained", "off">>] = 65
    /\ A_stub[<<"grass_observation", "dry">>, <<"rained", "on">>] = 0

\* C10: read_A_matrix never reads a spreadsheet that has been written as
\* an empty stub and not yet filled out.
Cex_C10 == lastRead # "stub"

(***************************************************************************)
(* Properties of the plotting cell and of the grid as a whole              *)
(***************************************************************************)
\* the cell that plots B has finished
PlotFinished == pc \in {"env", "observe", "act"}

\* what has been drawn so far is right: heat-map k shows slice k on axes
\* [k div 3, k mod 3] under the name of the action with index k
PlotSoFar ==
    /\ Len(drawn) = count
    /\ count <= 5
    /\ \A k \in 0..(Len(drawn) - 1) :
          /\ drawn[k + 1].slice = k
          /\ drawn[k + 1].axes = <<k \div 3, k % 3>>
          /\ drawn[k + 1].title \in DOMAIN actions
          /\ actions[drawn[k + 1].title] = k
    /\ \A k \in 1..Len(drawn) : drawn[k].axes # <<1, 2>>
    /\ PlotFinished =>
          /\ Len(drawn) = 5
          /\ {drawn[k].slice : k \in 1..Len(drawn)} = Actions
          /\ deleted = << <<1, 2>> >>

\* C13: the B visualisation loop terminates after drawing exactly 5
\* heat-maps: each action index k in 0..4 is drawn once, on axes
\* [k div 3, k mod 3], titled with the name of the action with index k; the
\* sixth axes [1, 2] is never drawn on and is the one deleted.
Thm_C13 == []PlotSoFar /\ <>PlotFinished

\* the plotting cell has finished with STAY drawn last, on axes [1, 1]
Wit_C13 ==
    /\ PlotFinished
    /\ Len(drawn) = 5
    /\ drawn[5] = [slice |-> 4, axes |-> <<1, 1>>, title |-> "STAY"]
    /\ deleted = << <<1, 2>> >>

\* C14: the grid is closed under every action: every entry of P is a state
\* index in 0..8 and none still holds the placeholder, so every run stays on
\* valid states and B[ns, s, a] is never indexed out of bounds.
Thm_C14 ==
    /\ \A k \in DOMAIN P : \A act \in Actions :
          /\ P[k][act] # EmptyList
          /\ P[k][act] \in States
    /\ PBuilt => DOMAIN P = States
    /\ (pc = "B" /\ s < num_states) => <<P[s][a], s, a>> \in DOMAIN B
    /\ \A k \in 1..Len(xs1) : xs1[k] \in States
    /\ \A k \in 1..Len(xs2) : xs2[k] \in States

\* a run has pushed three times against the walls of the corner state 8
Wit_C14 ==
    /\ PBuilt
    /\ xs1 = <<8, 8, 8, 8>>
    /\ acts = <<DOWN, RIGHT, DOWN>>

\* the four actions that move
Directions == {UP, RIGHT, DOWN, LEFT}

Abs(n) == IF n < 0 THEN 0 - n ELSE n

\* the Manhattan distance between the coordinates of two states
Manhattan(st, st2) == Abs(xOf(st) - xOf(st2)) + Abs(yOf(st) - yOf(st2))

\* the states that n moving actions, chosen freely, lead to from src
RECURSIVE ReachExact(_, _)
ReachExact(src, n) ==
    IF n = 0 THEN {src}
    ELSE {P[m][d] : m \in ReachExact(src, n - 1), d \in Directions}

\* C15: every state is reachable from every other: some sequence of
\* UP/RIGHT/DOWN/LEFT whose length is the Manhattan distance (at most 4)
\* takes s to t, and no shorter sequence does.
Thm_C15 ==
    /\ PBuilt => \A st \in States : \A st2 \in States :
          /\ Manhattan(st, st2) <= 4
          /\ st2 \in ReachExact(st, Manhattan(st, st2))
          /\ \A n \in 0..(Manhattan(st, st2) - 1) : st2 \notin ReachExact(st, n)
    /\ (Len(xs1) > 0 /\ \A k \in 1..Len(acts) : acts[k] \in Directions)
          => Manhattan(xs1[1], Last(xs1)) <= Len(acts)

\* a run has gone from state 0 to state 5, three moves away, in three moves
Wit_C15 ==
    /\ PBuilt
    /\ Len(acts) = 3
    /\ \A k \in 1..Len(acts) : acts[k] \in Directions
    /\ xs1[1] = 0
    /\ Last(xs1) = 5
    /\ Manhattan(0, 5) = 3

\* C16: opposite moves are inverses whenever the first move is not blocked:
\* if P[s][UP] # s then P[P[s][UP]][DOWN] = s, and likewise for DOWN then
\* UP, LEFT then RIGHT and RIGHT then LEFT.
Thm_C16 ==
    /\ PBuilt => \A st \in States :
          /\ P[st][UP] # st => P[P[st][UP]][DOWN] = st
          /\ P[st][DOWN] # st => P[P[st][DOWN]][UP] = st
          /\ P[st][LEFT] # st => P[P[st][LEFT]][RIGHT] = st
          /\ P[st][RIGHT] # st => P[P[st][RIGHT]][LEFT] = st
    /\ \A k \in 1..(Len(acts) - 1) :
          (/\ <<acts[k], acts[k + 1]>> \in
                 {<<UP, DOWN>>, <<DOWN, UP>>, <<LEFT, RIGHT>>, <<RIGHT, LEFT>>}
           /\ xs1[k + 1] # xs1[k])
          => xs1[k + 2] = xs1[k]

\* a run has gone up from the centre and come back down to it
Wit_C16 ==
    /\ PBuilt
    /\ Len(acts) >= 2
    /\ acts[1] = UP
    /\ acts[2] = DOWN
    /\ xs1[1] = 4
    /\ xs1[2] = 1
    /\ xs1[3] = 4

\* C17: repeating one moving action reaches a wall and stays there: after 2
\* applications of the same action the state is a fixed point of that
\* action, and every further application leaves it unchanged.
Thm_C17 ==
    /\ PBuilt => \A st \in States : \A d \in Directions :
          LET st2 == P[P[st][d]][d]
          IN  /\ P[st2][d] = st2
              /\ P[P[st2][d]][d] = st2
    /\ \A k \in 1..(Len(acts) - 2) :
          (acts[k] \in Directions /\ acts[k + 1] = acts[k] /\ acts[k + 2] = acts[k])
          => xs1[k + 3] = xs1[k + 2]

\* a run has gone right three times from state 0 and stopped at the wall
Wit_C17 ==
    /\ PBuilt
    /\ Len(acts) >= 3
    /\ acts[1] = RIGHT /\ acts[2] = RIGHT /\ acts[3] = RIGHT
    /\ xs1[1] = 0 /\ xs1[2] = 1 /\ xs1[3] = 2 /\ xs1[4] = 2

(***************************************************************************)
(* Further properties of the likelihood demo                               *)
(***************************************************************************)
\* the read-back cell has run
AfterReadBack == dpc \in {"option2", "convert", "sample", "infer", "done", "error"}

\* the Option 2 cell has run: A_stub holds what convert_A_stub_to_ndarray gets
ReachesConvert == dpc \in {"convert", "sample", "infer", "done"}

\* the conversion has run
Converted == dpc \in {"sample", "infer", "done"}

\* C11: for either value of read_from_excel exactly one option supplies the
\* values of A_stub that reach convert_A_stub_to_ndarray: read_A_matrix is
\* called iff read_from_excel is true, Option 2 fills iff it is false, and
\* read_A_matrix is only called once excel_path is defined.
Thm_C11 ==
    /\ Len(readCalls) <= 1
    /\ \A k \in 1..Len(readCalls) : readCalls[k].pathDefined
    /\ AfterReadBack => (Len(readCalls) = 1 <=> read_from_excel)
    /\ (dpc = "error") => (read_from_excel /\ lastRead = "missing")
    /\ ReachesConvert =>
          /\ Cardinality(supplied) = 1
          /\ "option1" \in supplied <=> read_from_excel
          /\ "option2" \in supplied <=> ~read_from_excel
          /\ read_from_excel => (file.exists /\ A_stub = file.content)
          /\ ~read_from_excel => A_stub = Option2Fill(create_A_matrix_stub)
    /\ Converted => A_nd = convert_A_stub_to_ndarray(A_stub)

\* the spreadsheet was read, Option 2 was skipped, and the table of the
\* sheet is the one that has been converted
Wit_C11 ==
    /\ Converted
    /\ read_from_excel
    /\ supplied = {"option1"}
    /\ readCalls = << [pathDefined |-> TRUE] >>
    /\ A_stub = handFilledSheet
    /\ A_nd[1][0, 0, 0] = 90

\* the sample cell has run
Sampled == dpc \in {"infer", "done"}

\* C12: the sampled observation is one-hot in every modality: obs_idx[g]
\* lies in 0..num_obs[g]-1, observation[g] is 1 at that index and 0
\* elsewhere, and the label printed for g is the label at that index.
Thm_C12 ==
    Sampled => \A g \in 1..Len(modality_names) :
        /\ obs_idx[g] \in 0..(num_obs[g] - 1)
        /\ DOMAIN observation[g] = 0..(num_obs[g] - 1)
        /\ \A k \in 0..(num_obs[g] - 1) :
              observation[g][k] = IF k = obs_idx[g] THEN 1 ELSE 0
        /\ printed[g][1] = modality_names[g]
        /\ \E k \in 1..Len(obs_labels[modality_names[g]]) :
              /\ k = obs_idx[g] + 1
              /\ printed[g][2] = obs_labels[modality_names[g]][k]

\* the sample cell has drawn the last outcome of both modalities
Wit_C12 ==
    /\ Sampled
    /\ obs_idx = <<1, 2>>
    /\ observation[2][2] = 1
    /\ printed = << <<"grass_observation", "dry">>,
                    <<"weather_observation", "cloudy">> >>

\* the Option 1 cell has run
AfterOption1 == dpc \notin {"labels", "option1"}

\* C18: the stub is written to the spreadsheet iff read_from_excel is true
\* and pre_specified_excel is false; with pre_specified_excel true an
\* existing spreadsheet is left unchanged by the run and the only effect on
\* the file system is that tmp_dir is created when it does not exist.
Thm_C18 ==
    /\ ~AfterOption1 => ~wrote
    /\ AfterOption1 => (wrote <=> (read_from_excel /\ ~pre_specified_excel))
    /\ ~wrote => file = fs0.file
    /\ wrote => (file.exists /\ file.origin \in {"stub", "filled"})
    /\ pre_specified_excel =>
          /\ file = fs0.file
          /\ \/ dirExists = fs0.dir
             \/ ~fs0.dir /\ dirExists /\ read_from_excel /\ AfterOption1

\* a run with the shipped flags has ended and the sheet that existed before
\* is the sheet that was read and is still there
Wit_C18 ==
    /\ dpc = "done"
    /\ read_from_excel
    /\ pre_specified_excel
    /\ fs0.file.exists
    /\ file = fs0.file
    /\ lastRead = "prespecified"
    /\ ~wrote

\* C19: in the inline-filled table the weather_observation distribution
\* depends only on did_it_rain (the same for sprinkler on and off), whereas
\* the grass_observation distribution differs between sprinkler settings.
Thm_C19 ==
    Option2Ran =>
        /\ \A rain \in Range(state_labels.did_it_rain) :
           \A o \in Range(obs_labels.weather_observation) :
              A_stub[<<"weather_observation", o>>, <<rain, "on">>]
                 = A_stub[<<"weather_observation", o>>, <<rain, "off">>]
        /\ \E rain \in Range(state_labels.did_it_rain) :
           \E o \in Range(obs_labels.grass_observation) :
              A_stub[<<"grass_observation", o>>, <<rain, "on">>]
                 # A_stub[<<"grass_observation", o>>, <<rain, "off">>]

\* the table is filled inline: rainy weather is as likely with the sprinkler
\* on as off, wet grass is not
Wit_C19 ==
    /\ Option2Ran
    /\ A_stub[<<"weather_observation", "rainy">>, <<"rained", "on">>] = 65
    /\ A_stub[<<"weather_observation", "rainy">>, <<"rained", "off">>] = 65
    /\ A_stub[<<"grass_observation", "wet">>, <<"rained", "on">>] = 100
    /\ A_stub[<<"grass_observation", "wet">>, <<"rained", "off">>] = 70

====
